---- MODULE Spec2Model ----
(***************************************************************************)
(* Model of jjka (cli/src/main.rs): the range parser LineRange::parse, the *)
(* line partitioner extract_lines_from_content / extract_complement_lines  *)
(* and the control flow of hunksplit_command.                              *)
(*                                                                         *)
(* Strings and byte vectors are sequences of one-character strings.  A     *)
(* usize is a natural number; every digit string the model builds is short *)
(* enough that no value comes near usize::MAX, so the overflow branch of   *)
(* usize::from_str is out of reach of the bounds.                          *)
(***************************************************************************)
EXTENDS Integers, Sequences, FiniteSets, TLC

VARIABLES
    \* ---- LineRange::parse applied to one input
    s,              \* the argument of LineRange::parse
    orig,           \* the LineRange the input was formatted from, or NoRange
    parsed,         \* the Result returned, NotCalled before the call
    \* ---- the line partitioner applied to one file
    content,        \* &[u8]: the file's bytes
    ranges,         \* &[LineRange]
    file_path,      \* &str
    selected,       \* what extract_lines_from_content returned
    sel_lines,      \* its result_lines at the return, as positions in `lines`
    remaining,      \* what extract_complement_lines returned
    rem_lines,      \* its result_lines at the return, as positions in `lines`
    \* ---- one run of hunksplit_command
    pc,             \* position in hunksplit_command
    args,           \* ranges: Vec<String>
    arg_i,          \* how many arguments the parse loop has taken
    parsed_ranges,  \* Vec<LineRange> built by the parse loop
    fs,             \* working copy: path -> bytes, or Missing
    affected_files, \* the paths of the HashSet not yet visited
    effects,        \* the external accesses made so far, in order
    output,         \* one record per path printed under "Affected files"
    outcome         \* the Result of hunksplit_command, Running before it returns

parseVars == <<s, orig, parsed>>
partVars  == <<content, ranges, file_path, selected, sel_lines, remaining, rem_lines>>
cmdVars   == <<pc, args, arg_i, parsed_ranges, fs, affected_files, effects, output, outcome>>
vars      == <<parseVars, partVars, cmdVars>>

(***************************************************************************)
(* Bounds of the model.                                                    *)
(***************************************************************************)
MaxStrLen == 5
MaxPathLen == 2
MaxNum == 11
MaxContentLen == 3
MaxLine == 2
MaxRanges == 2
MaxArgs == 3

LF == "\n"
CR == "\r"

RECURSIVE SeqsUpTo(_, _)
SeqsUpTo(S, n) ==
    IF n = 0 THEN {<<>>}
    ELSE LET shorter == SeqsUpTo(S, n - 1)
         IN  shorter \cup {Append(q, c) : q \in {x \in shorter : Len(x) = n - 1}, c \in S}

(***************************************************************************)
(* Helpers of the standard library, as the code uses them.                 *)
(***************************************************************************)
min(a, b) == IF a <= b THEN a ELSE b

saturating_sub(a, b) == IF a >= b THEN a - b ELSE 0

\* The position of the last occurrence of c in str, 0 when there is none.
RECURSIVE rfind(_, _)
rfind(str, c) ==
    IF str = <<>> THEN 0
    ELSE IF str[Len(str)] = c THEN Len(str)
    ELSE rfind(SubSeq(str, 1, Len(str) - 1), c)

\* The position of the first occurrence of c in str, 0 when there is none.
RECURSIVE find(_, _)
find(str, c) ==
    IF str = <<>> THEN 0
    ELSE IF str[1] = c THEN 1
    ELSE LET r == find(Tail(str), c) IN IF r = 0 THEN 0 ELSE r + 1

\* A variant of rsplitn2 that cuts at the first c instead of the last.
splitn2_first(str, c) ==
    LET k == find(str, c)
    IN  IF k = 0 THEN <<str>>
        ELSE <<SubSeq(str, k + 1, Len(str)), SubSeq(str, 1, k - 1)>>

\* str.rsplitn(2, c).collect(): the text after the last c first, then the
\* text before it; the whole string alone when it holds no c.
rsplitn2(str, c) ==
    LET k == rfind(str, c)
    IN  IF k = 0 THEN <<str>>
        ELSE <<SubSeq(str, k + 1, Len(str)), SubSeq(str, 1, k - 1)>>

\* str.split(c).collect(): the pieces between the occurrences of c; one
\* (possibly empty) piece when there is no c.
RECURSIVE split(_, _)
split(str, c) ==
    LET k == find(str, c)
    IN  IF k = 0 THEN <<str>>
        ELSE <<SubSeq(str, 1, k - 1)>> \o split(SubSeq(str, k + 1, Len(str)), c)

Digits == {"0", "1", "2", "3", "4", "5", "6", "7", "8", "9"}

DigitVal(c) ==
    CASE c = "0" -> 0 [] c = "1" -> 1 [] c = "2" -> 2 [] c = "3" -> 3
      [] c = "4" -> 4 [] c = "5" -> 5 [] c = "6" -> 6 [] c = "7" -> 7
      [] c = "8" -> 8 [] c = "9" -> 9

DigitChar(d) == <<"0", "1", "2", "3", "4", "5", "6", "7", "8", "9">>[d + 1]

RECURSIVE digits_value(_, _)
digits_value(str, acc) ==
    IF str = <<>> THEN acc
    ELSE digits_value(Tail(str), acc * 10 + DigitVal(str[1]))

\* tok.parse::<usize>(): an optional leading '+', then one or more decimal
\* digits (leading zeros allowed); anything else is an error.
parse_usize(tok) ==
    LET body == IF tok # <<>> /\ tok[1] = "+" THEN Tail(tok) ELSE tok
    IN  IF body = <<>> \/ \E i \in 1..Len(body) : body[i] \notin Digits
        THEN [ok |-> FALSE]
        ELSE [ok |-> TRUE, val |-> digits_value(body, 0)]

\* n.to_string() of a usize: decimal, no sign, no leading zeros.
RECURSIVE to_string(_)
to_string(n) ==
    IF n < 10 THEN <<DigitChar(n)>>
    ELSE to_string(n \div 10) \o <<DigitChar(n % 10)>>

(***************************************************************************)
(* LineRange::parse                                                        *)
(***************************************************************************)
ErrNoColon   == "Invalid range format. Expected path:start-end"
ErrNotTwo    == "Invalid range format. Expected start-end"
ErrStart     == "Failed to parse start line number"
ErrEnd       == "Failed to parse end line number"
ErrZero      == "Line numbers must be >= 1"
ErrInverted  == "Start line must be <= end line"

Err(msg) == [ok |-> FALSE, err |-> msg]

LineRange(p, st, en) == [path |-> p, start |-> st, end |-> en]

Ok(lr) == [ok |-> TRUE, val |-> lr]

\* A variant of parse that compares start with end before it looks for a
\* zero bound.
parse_order_first(str) ==
    LET parts == rsplitn2(str, ":")
    IN  IF Len(parts) # 2 THEN Err(ErrNoColon)
        ELSE
        LET range_parts == split(parts[1], "-")
        IN  IF Len(range_parts) # 2 THEN Err(ErrNotTwo)
            ELSE
            LET st == parse_usize(range_parts[1])
                en == parse_usize(range_parts[2])
            IN  IF ~st.ok THEN Err(ErrStart)
                ELSE IF ~en.ok THEN Err(ErrEnd)
                ELSE IF st.val > en.val THEN Err(ErrInverted)
                ELSE IF st.val < 1 \/ en.val < 1 THEN Err(ErrZero)
                ELSE Ok(LineRange(parts[2], st.val, en.val))

parse(str) ==
    LET parts == rsplitn2(str, ":")
    IN  IF Len(parts) # 2 THEN Err(ErrNoColon)
        ELSE
        LET range_str   == parts[1]
            path_str    == parts[2]
            range_parts == split(range_str, "-")
        IN  IF Len(range_parts) # 2 THEN Err(ErrNotTwo)
            ELSE
            LET st == parse_usize(range_parts[1])
                en == parse_usize(range_parts[2])
            IN  IF ~st.ok THEN Err(ErrStart)
                ELSE IF ~en.ok THEN Err(ErrEnd)
                ELSE IF st.val < 1 \/ en.val < 1 THEN Err(ErrZero)
                ELSE IF st.val > en.val THEN Err(ErrInverted)
                ELSE Ok(LineRange(path_str, st.val, en.val))

(***************************************************************************)
(* Text helpers of the line partitioner.                                   *)
(***************************************************************************)
\* The one byte of the model that is not valid UTF-8, the character
\* String::from_utf8_lossy puts in its place, and that character's encoding.
BadByte == "xFF"
ReplacementChar == "uFFFD"
ReplacementBytes == <<"xEF", "xBF", "xBD">>

\* String::from_utf8_lossy over the bytes the model uses: ASCII bytes are
\* themselves, EF BF BD decodes to U+FFFD, any other byte becomes U+FFFD.
RECURSIVE from_utf8_lossy(_)
from_utf8_lossy(bytes) ==
    IF bytes = <<>> THEN <<>>
    ELSE IF Len(bytes) >= 3 /\ SubSeq(bytes, 1, 3) = ReplacementBytes
    THEN <<ReplacementChar>> \o from_utf8_lossy(SubSeq(bytes, 4, Len(bytes)))
    ELSE IF bytes[1] \in {BadByte, "xEF", "xBF", "xBD"}
    THEN <<ReplacementChar>> \o from_utf8_lossy(Tail(bytes))
    ELSE <<bytes[1]>> \o from_utf8_lossy(Tail(bytes))

\* String::into_bytes: the UTF-8 encoding of the text.
RECURSIVE into_bytes(_)
into_bytes(str) ==
    IF str = <<>> THEN <<>>
    ELSE (IF str[1] = ReplacementChar THEN ReplacementBytes ELSE <<str[1]>>)
         \o into_bytes(Tail(str))

\* One line of str.lines(): the terminating "\n" is dropped, and one "\r"
\* right before it.
strip_cr(line) ==
    IF line # <<>> /\ line[Len(line)] = CR THEN SubSeq(line, 1, Len(line) - 1) ELSE line

\* str.lines().collect(): split after every "\n"; the last piece needs no "\n"
\* and then keeps a trailing "\r"; an empty string has no line.
RECURSIVE lines(_)
lines(str) ==
    IF str = <<>> THEN <<>>
    ELSE LET k == find(str, LF)
         IN  IF k = 0 THEN <<str>>
             ELSE <<strip_cr(SubSeq(str, 1, k - 1))>> \o lines(SubSeq(str, k + 1, Len(str)))

\* [&str].join(sep)
RECURSIVE join(_, _)
join(strs, sep) ==
    IF strs = <<>> THEN <<>>
    ELSE IF Len(strs) = 1 THEN strs[1]
    ELSE strs[1] \o sep \o join(Tail(strs), sep)

(***************************************************************************)
(* The line partitioner.  A &LineRange is a position in the slice `ranges`,*)
(* and a &str pushed to result_lines is a 0-based position in `lines`.     *)
(***************************************************************************)
\* ranges.iter().filter(|r| r.path == file_path)
RECURSIVE filter_path(_, _, _)
filter_path(rs, path, from) ==
    IF from > Len(rs) THEN <<>>
    ELSE (IF rs[from].path = path THEN <<from>> ELSE <<>>) \o filter_path(rs, path, from + 1)

\* Insert reference r into the sorted sequence so that it lands behind every
\* element whose key is not greater (a stable sort).
RECURSIVE insert_by_key(_, _, _)
insert_by_key(sorted, r, rs) ==
    IF sorted = <<>> THEN <<r>>
    ELSE IF rs[sorted[1]].start <= rs[r].start
    THEN <<sorted[1]>> \o insert_by_key(Tail(sorted), r, rs)
    ELSE <<r>> \o sorted

\* A variant of sorted_by_key that leaves the references in input order.
unsorted(refs, rs) == refs

\* .sorted_by_key(|r| r.start): itertools collects and calls Vec::sort_by_key,
\* a stable sort.
RECURSIVE sorted_by_key(_, _)
sorted_by_key(refs, rs) ==
    IF refs = <<>> THEN <<>>
    ELSE insert_by_key(sorted_by_key(SubSeq(refs, 1, Len(refs) - 1), rs), refs[Len(refs)], rs)

applicable_ranges(rs, path) == sorted_by_key(filter_path(rs, path, 1), rs)

\* The positions start_idx, ..., end_idx - 1 in ascending order.
RECURSIVE index_span(_, _)
index_span(start_idx, end_idx) ==
    IF start_idx >= end_idx THEN <<>>
    ELSE <<start_idx>> \o index_span(start_idx + 1, end_idx)

NotCalled == [called |-> FALSE]
Panicked == [panic |-> TRUE]
Returned(bytes) == [panic |-> FALSE, bytes |-> bytes]

\* A variant of select_loop without the test start_idx < lines.len().
RECURSIVE select_loop_unguarded(_, _, _, _)
select_loop_unguarded(app, rs, nlines, result_lines) ==
    IF app = <<>> THEN [panic |-> FALSE, result_lines |-> result_lines]
    ELSE
    LET range     == rs[app[1]]
        start_idx == saturating_sub(range.start, 1)
        end_idx   == min(range.end, nlines)
    IN  IF start_idx > end_idx THEN Panicked
        ELSE select_loop_unguarded(Tail(app), rs, nlines,
                                   result_lines \o index_span(start_idx, end_idx))

\* The loop of extract_lines_from_content over the applicable ranges: the
\* final result_lines, or a panic when a slice lines[start_idx..end_idx] has
\* start_idx > end_idx.
RECURSIVE select_loop(_, _, _, _)
select_loop(app, rs, nlines, result_lines) ==
    IF app = <<>> THEN [panic |-> FALSE, result_lines |-> result_lines]
    ELSE
    LET range     == rs[app[1]]
        start_idx == saturating_sub(range.start, 1)
        end_idx   == min(range.end, nlines)
    IN  IF start_idx < nlines
        THEN IF start_idx > end_idx THEN Panicked
             ELSE select_loop(Tail(app), rs, nlines,
                              result_lines \o index_span(start_idx, end_idx))
        ELSE select_loop(Tail(app), rs, nlines, result_lines)

\* The text of the lines at the given 0-based positions.
line_texts(idxs, ls) == [k \in 1..Len(idxs) |-> ls[idxs[k] + 1]]

\* result_lines of extract_lines_from_content at its return (empty at the
\* early return, which comes before the vector is made, and at a panic).
select_result_lines(bytes, rs, path) ==
    LET app == applicable_ranges(rs, path)
        res == select_loop(app, rs, Len(lines(from_utf8_lossy(bytes))), <<>>)
    IN  IF app = <<>> \/ res.panic THEN <<>> ELSE res.result_lines

extract_lines_from_content(bytes, rs, path) ==
    LET app == applicable_ranges(rs, path)
    IN  IF app = <<>> THEN Returned(<<>>)
        ELSE
        LET ls  == lines(from_utf8_lossy(bytes))
            res == select_loop(app, rs, Len(ls), <<>>)
        IN  IF res.panic THEN Panicked
            ELSE Returned(into_bytes(join(line_texts(res.result_lines, ls), <<LF>>)))

\* A variant of excluded_loop that keeps only the lines of the range it
\* saw last.
RECURSIVE excluded_loop_last_only(_, _, _, _)
excluded_loop_last_only(app, rs, nlines, excluded_lines) ==
    IF app = <<>> THEN excluded_lines
    ELSE
    LET range     == rs[app[1]]
        start_idx == saturating_sub(range.start, 1)
        end_idx   == min(range.end, nlines)
    IN  excluded_loop_last_only(Tail(app), rs, nlines,
                                {i \in start_idx..(end_idx - 1) : TRUE})

\* A variant of excluded_loop that takes range.start for a 0-based position.
RECURSIVE excluded_loop_off_by_one(_, _, _, _)
excluded_loop_off_by_one(app, rs, nlines, excluded_lines) ==
    IF app = <<>> THEN excluded_lines
    ELSE
    LET range     == rs[app[1]]
        start_idx == range.start
        end_idx   == min(range.end, nlines)
    IN  excluded_loop_off_by_one(Tail(app), rs, nlines,
                                 excluded_lines \cup {i \in start_idx..(end_idx - 1) : TRUE})

\* The loop of extract_complement_lines that fills excluded_lines.
RECURSIVE excluded_loop(_, _, _, _)
excluded_loop(app, rs, nlines, excluded_lines) ==
    IF app = <<>> THEN excluded_lines
    ELSE
    LET range     == rs[app[1]]
        start_idx == saturating_sub(range.start, 1)
        end_idx   == min(range.end, nlines)
    IN  excluded_loop(Tail(app), rs, nlines,
                      excluded_lines \cup {i \in start_idx..(end_idx - 1) : TRUE})

\* lines.iter().enumerate().filter(|(i, _)| !excluded_lines.contains(i))
RECURSIVE not_excluded(_, _, _)
not_excluded(i, nlines, excluded_lines) ==
    IF i >= nlines THEN <<>>
    ELSE (IF i \in excluded_lines THEN <<>> ELSE <<i>>)
         \o not_excluded(i + 1, nlines, excluded_lines)

\* result_lines of extract_complement_lines at its return; at the early
\* return nothing is split and every line of the content is kept.
complement_result_lines(bytes, rs, path) ==
    LET app    == applicable_ranges(rs, path)
        nlines == Len(lines(from_utf8_lossy(bytes)))
    IN  IF app = <<>> THEN index_span(0, nlines)
        ELSE not_excluded(0, nlines, excluded_loop(app, rs, nlines, {}))

\* A variant of extract_complement_lines without the early return for an
\* empty applicable_ranges.
extract_complement_lines_always_split(bytes, rs, path) ==
    LET app == applicable_ranges(rs, path)
        ls  == lines(from_utf8_lossy(bytes))
        res == not_excluded(0, Len(ls), excluded_loop(app, rs, Len(ls), {}))
    IN  Returned(into_bytes(join(line_texts(res, ls), <<LF>>)))

extract_complement_lines(bytes, rs, path) ==
    LET app == applicable_ranges(rs, path)
    IN  IF app = <<>> THEN Returned(bytes)
        ELSE
        LET ls  == lines(from_utf8_lossy(bytes))
            res == not_excluded(0, Len(ls), excluded_loop(app, rs, Len(ls), {}))
        IN  Returned(into_bytes(join(line_texts(res, ls), <<LF>>)))

(***************************************************************************)
(* Values the three state machines rest in while another one runs.         *)
(***************************************************************************)
NoRange == [none |-> TRUE]
Missing == [found |-> FALSE]
Running == [running |-> TRUE]

ParseIdle == s = <<>> /\ orig = NoRange /\ parsed = NotCalled

PartIdle ==
    /\ content = <<>> /\ ranges = <<>> /\ file_path = <<>>
    /\ selected = NotCalled /\ remaining = NotCalled
    /\ sel_lines = <<>> /\ rem_lines = <<>>

CmdIdle ==
    /\ pc = "idle" /\ args = <<>> /\ arg_i = 0 /\ parsed_ranges = <<>> /\ fs = [none |-> TRUE]
    /\ affected_files = {} /\ effects = <<>> /\ output = <<>> /\ outcome = Running

(***************************************************************************)
(* SpecParse: LineRange::parse applied to one input string.                *)
(***************************************************************************)
ParseAlphabet == {":", "-", "+", "0", "1", "2", "a"}
PathAlphabet == {":", "-", "a"}

\* The text path:start-end of a range.
format_range(lr) == lr.path \o <<":">> \o to_string(lr.start) \o <<"-">> \o to_string(lr.end)

ValidRanges(pathSet, maxNum) ==
    {LineRange(p, st, en) : p \in pathSet,
                            st \in 1..maxNum, en \in 1..maxNum} \ {lr \in
    {LineRange(p, st, en) : p \in pathSet,
                            st \in 1..maxNum, en \in 1..maxNum} : lr.start > lr.end}

InitParse ==
    /\ \/ /\ orig = NoRange
          /\ s \in SeqsUpTo(ParseAlphabet, MaxStrLen)
       \/ /\ orig \in ValidRanges(SeqsUpTo(PathAlphabet, MaxPathLen), MaxNum)
          /\ s = format_range(orig)
    /\ parsed = NotCalled
    /\ PartIdle /\ CmdIdle

Parse ==
    /\ parsed = NotCalled
    /\ parsed' = parse(s)
    /\ UNCHANGED <<s, orig, partVars, cmdVars>>

NextParse == Parse

SpecParse == InitParse /\ [][NextParse]_vars

(***************************************************************************)
(* SpecPart: the two partitioner functions applied to one file, in the     *)
(* order hunksplit_command calls them.                                     *)
(***************************************************************************)
ByteAlphabet == {"a", LF, CR, BadByte}
Paths == {<<"f">>, <<"g">>}

\* The ranges a list is drawn from: every validated range for the file at
\* hand, and one for another file.
RangeChoices == ValidRanges({<<"f">>}, MaxLine) \cup {LineRange(<<"g">>, 1, 2)}

InitPart ==
    /\ content \in SeqsUpTo(ByteAlphabet, MaxContentLen)
    /\ ranges \in SeqsUpTo(RangeChoices, MaxRanges)
    /\ file_path = <<"f">>
    /\ selected = NotCalled /\ remaining = NotCalled
    /\ sel_lines = <<>> /\ rem_lines = <<>>
    /\ ParseIdle /\ CmdIdle

Select ==
    /\ selected = NotCalled
    /\ selected' = extract_lines_from_content(content, ranges, file_path)
    /\ sel_lines' = select_result_lines(content, ranges, file_path)
    /\ UNCHANGED <<content, ranges, file_path, remaining, rem_lines, parseVars, cmdVars>>

Complement ==
    /\ selected # NotCalled /\ remaining = NotCalled
    /\ remaining' = extract_complement_lines(content, ranges, file_path)
    /\ rem_lines' = complement_result_lines(content, ranges, file_path)
    /\ UNCHANGED <<content, ranges, file_path, selected, sel_lines, parseVars, cmdVars>>

NextPart == Select \/ Complement

SpecPart == InitPart /\ [][NextPart]_vars

(***************************************************************************)
(* SpecCmd: one run of hunksplit_command.                                  *)
(***************************************************************************)
ArgChoices ==
    { <<"f", ":", "1", "-", "2">>,      \* valid
      <<"f", ":", "2", "-", "3">>,      \* valid, overlaps the first
      <<"g", ":", "2", "-", "2">>,      \* valid, another path
      <<"f", ":", "0", "-", "1">>,      \* zero bound
      <<"g", ":", "2", "-", "1">>,      \* inverted
      <<"f", "-", "1">>,                \* no colon
      <<"g", ":", "x", "-", "1">> }     \* start is no number

FileChoices ==
    { Missing,
      [found |-> TRUE, bytes |-> <<"a", LF, "b", LF, "c">>],
      [found |-> TRUE, bytes |-> <<"a", LF>>] }

OkResult == [ok |-> TRUE]

ErrCurrentDir    == "Failed to get current directory"
ErrSettings      == "UserSettings::from_config failed"
ErrLoadWorkspace == "Failed to load workspace"
ErrLoadRepo      == "Failed to load repository"

InitCmd ==
    /\ pc = "parse"
    /\ args \in SeqsUpTo(ArgChoices, MaxArgs) \ {<<>>}
    /\ arg_i = 0
    /\ parsed_ranges = <<>>
    /\ fs \in [Paths -> FileChoices]
    /\ affected_files = {}
    /\ effects = <<>>
    /\ output = <<>>
    /\ outcome = Running
    /\ ParseIdle /\ PartIdle

\* A variant of ParseArg that drops an argument it cannot parse and goes on
\* (if let Ok(r) = LineRange::parse(..) in place of the ? operator).
ParseArgSkipInvalid ==
    /\ pc = "parse" /\ arg_i < Len(args)
    /\ LET r == parse(args[arg_i + 1])
       IN  /\ parsed_ranges' = IF r.ok THEN Append(parsed_ranges, r.val) ELSE parsed_ranges
           /\ arg_i' = arg_i + 1
           /\ UNCHANGED <<pc, outcome>>
    /\ UNCHANGED <<args, fs, affected_files, effects, output, parseVars, partVars>>

\* One turn of `for range_str in &ranges`: LineRange::parse(range_str)?
ParseArg ==
    /\ pc = "parse" /\ arg_i < Len(args)
    /\ LET r == parse(args[arg_i + 1])
       IN  IF r.ok
           THEN /\ parsed_ranges' = Append(parsed_ranges, r.val)
                /\ arg_i' = arg_i + 1
                /\ UNCHANGED <<pc, outcome>>
           ELSE /\ outcome' = Err(r.err)
                /\ pc' = "done"
                /\ UNCHANGED <<parsed_ranges, arg_i>>
    /\ UNCHANGED <<args, fs, affected_files, effects, output, parseVars, partVars>>

\* std::env::current_dir().context(..)?
CurrentDir ==
    /\ pc = "parse" /\ arg_i = Len(args)
    /\ effects' = Append(effects, <<"current_dir">>)
    /\ \/ pc' = "settings" /\ UNCHANGED outcome
       \/ pc' = "done" /\ outcome' = Err(ErrCurrentDir)
    /\ UNCHANGED <<args, arg_i, parsed_ranges, fs, affected_files, output,
                   parseVars, partVars>>

\* UserSettings::from_config(StackedConfig::empty())?
Settings ==
    /\ pc = "settings"
    /\ \/ pc' = "load_workspace" /\ UNCHANGED outcome
       \/ pc' = "done" /\ outcome' = Err(ErrSettings)
    /\ UNCHANGED <<args, arg_i, parsed_ranges, fs, affected_files, effects, output,
                   parseVars, partVars>>

\* Workspace::load(..).context("Failed to load workspace")?
LoadWorkspace ==
    /\ pc = "load_workspace"
    /\ effects' = Append(effects, <<"Workspace::load">>)
    /\ \/ pc' = "load_repo" /\ UNCHANGED outcome
       \/ pc' = "done" /\ outcome' = Err(ErrLoadWorkspace)
    /\ UNCHANGED <<args, arg_i, parsed_ranges, fs, affected_files, output,
                   parseVars, partVars>>

\* parsed_ranges.iter().map(|r| r.path.as_str()).collect::<HashSet<_>>()
path_set(rs) == {rs[i].path : i \in 1..Len(rs)}

\* workspace.repo_loader().load_at_head().context(..)?, then the listing of
\* the parsed ranges and the collection of the affected files.
LoadRepo ==
    /\ pc = "load_repo"
    /\ effects' = Append(effects, <<"load_at_head">>)
    /\ \/ /\ pc' = "files"
          /\ affected_files' = path_set(parsed_ranges)
          /\ UNCHANGED outcome
       \/ /\ pc' = "done"
          /\ outcome' = Err(ErrLoadRepo)
          /\ UNCHANGED affected_files
    /\ UNCHANGED <<args, arg_i, parsed_ranges, fs, output, parseVars, partVars>>

\* String::from_utf8_lossy(bytes).lines().count()
line_count(bytes) == Len(lines(from_utf8_lossy(bytes)))

\* The body of `for file_path_str in affected_files` for a file that
\* std::fs::read returned: what is printed for it, or the panic of
\* extract_lines_from_content.
file_report(path, bytes, rs) ==
    LET selected_content  == extract_lines_from_content(bytes, rs, path)
        remaining_content == extract_complement_lines(bytes, rs, path)
    IN  IF selected_content.panic THEN Panicked
        ELSE [panic |-> FALSE, path |-> path, found |-> TRUE,
              selected |-> selected_content.bytes,
              selected_lines |-> line_count(selected_content.bytes),
              remaining |-> remaining_content.bytes,
              remaining_lines |-> line_count(remaining_content.bytes)]

\* What is printed for a file std::fs::read could not read.
not_found_report(path) == [panic |-> FALSE, path |-> path, found |-> FALSE]

\* A variant of VisitFile that returns the error of std::fs::read
\* (std::fs::read(..)? in place of if let Ok(content)).
VisitFileAbortOnMissing ==
    /\ pc = "files"
    /\ \E path \in affected_files :
        /\ affected_files' = affected_files \ {path}
        /\ effects' = Append(effects, <<"fs::read", path>>)
        /\ IF fs[path].found
           THEN /\ output' = Append(output, file_report(path, fs[path].bytes, parsed_ranges))
                /\ UNCHANGED <<pc, outcome>>
           ELSE /\ pc' = "done"
                /\ outcome' = Err("No such file or directory")
                /\ UNCHANGED output
    /\ UNCHANGED <<args, arg_i, parsed_ranges, fs, parseVars, partVars>>

\* One turn of `for file_path_str in affected_files`; a HashSet yields its
\* elements in an order the program does not choose.
VisitFile ==
    /\ pc = "files"
    /\ \E path \in affected_files :
        /\ affected_files' = affected_files \ {path}
        /\ effects' = Append(effects, <<"fs::read", path>>)
        /\ LET report == IF fs[path].found
                         THEN file_report(path, fs[path].bytes, parsed_ranges)
                         ELSE not_found_report(path)
           IN  IF report.panic
               THEN pc' = "done" /\ outcome' = Panicked /\ UNCHANGED output
               ELSE output' = Append(output, report) /\ UNCHANGED <<pc, outcome>>
    /\ UNCHANGED <<args, arg_i, parsed_ranges, fs, parseVars, partVars>>

\* The closing note and Ok(()).
Finish ==
    /\ pc = "files" /\ affected_files = {}
    /\ pc' = "done"
    /\ outcome' = OkResult
    /\ UNCHANGED <<args, arg_i, parsed_ranges, fs, affected_files, effects, output,
                   parseVars, partVars>>

NextCmd == ParseArg \/ CurrentDir \/ Settings \/ LoadWorkspace \/ LoadRepo \/ VisitFile \/ Finish

SpecCmd == InitCmd /\ [][NextCmd]_vars

(***************************************************************************)
(* Properties of LineRange::parse (SpecParse).                             *)
(***************************************************************************)
Positions(str, c) == {i \in 1..Len(str) : str[i] = c}

SetMax(S) == CHOOSE x \in S : \A y \in S : y <= x

\* A token usize::from_str accepts: decimal digits, at least one, after an
\* optional '+'.
IsUnsigned(tok) ==
    \E k \in 0..1 :
        /\ Len(tok) > k
        /\ k = 1 => tok[1] = "+"
        /\ \A i \in (k + 1)..Len(tok) : tok[i] \in Digits

\* The value of an accepted token: the sum of its digits times their powers
\* of ten.
RECURSIVE Pow10(_)
Pow10(n) == IF n = 0 THEN 1 ELSE 10 * Pow10(n - 1)

RECURSIVE WeightedSum(_, _)
WeightedSum(tok, i) ==
    IF i > Len(tok) THEN 0
    ELSE (IF tok[i] = "+" THEN 0 ELSE DigitVal(tok[i]) * Pow10(Len(tok) - i))
         + WeightedSum(tok, i + 1)

\* What the rules of the range parser give for an input, stated on the
\* positions of the separators.
ExpectedParse(str) ==
    IF Positions(str, ":") = {} THEN Err(ErrNoColon)
    ELSE
    LET k     == SetMax(Positions(str, ":"))
        rng   == SubSeq(str, k + 1, Len(str))
        hyps  == Positions(rng, "-")
    IN  IF Cardinality(hyps) # 1 THEN Err(ErrNotTwo)
        ELSE
        LET h    == SetMax(hyps)
            tok1 == SubSeq(rng, 1, h - 1)
            tok2 == SubSeq(rng, h + 1, Len(rng))
        IN  IF ~IsUnsigned(tok1) THEN Err(ErrStart)
            ELSE IF ~IsUnsigned(tok2) THEN Err(ErrEnd)
            ELSE IF WeightedSum(tok1, 1) = 0 \/ WeightedSum(tok2, 1) = 0 THEN Err(ErrZero)
            ELSE IF WeightedSum(tok1, 1) > WeightedSum(tok2, 1) THEN Err(ErrInverted)
            ELSE Ok(LineRange(SubSeq(str, 1, k - 1), WeightedSum(tok1, 1), WeightedSum(tok2, 1)))

\* C3: LineRange::parse returns a range exactly when the input has a colon,
\* the text after the last colon holds exactly one hyphen, both tokens are
\* unsigned numbers, both are >= 1 and start <= end; otherwise it reports
\* the first failure in the order missing colon, not two tokens, start not a
\* number, end not a number, zero bound, start > end.
C3_ParseAcceptsAndRejectsInOrder ==
    parsed # NotCalled => parsed = ExpectedParse(s)

\* C3 witness: an input with end = 0 and start > 0 was parsed and the
\* zero-bound failure was reported.
C3_Witness ==
    /\ parsed = Err(ErrZero)
    /\ s = <<"a", ":", "2", "-", "0">>

\* C4: parse applied to path ":" start "-" end, for any path (colons and
\* hyphens included) and 1 <= start <= end, returns exactly (path, start, end).
C4_ParseRoundTrip ==
    (parsed # NotCalled /\ orig # NoRange) => parsed = Ok(orig)

\* C4 witness: a path holding a colon and a hyphen, with a two-digit bound,
\* came back unchanged.
C4_Witness ==
    /\ orig # NoRange
    /\ orig = LineRange(<<":", "-">>, 2, 11)
    /\ parsed = Ok(orig)

(***************************************************************************)
(* Properties of the line partitioner (SpecPart).                          *)
(***************************************************************************)
\* The positions in `ranges` of the ranges for the given path.
Matching == {i \in 1..Len(ranges) : ranges[i].path = file_path}

\* The number of lines of the content.
NumLines == Len(lines(from_utf8_lossy(content)))

\* No two ranges for the given path share a line number.
NonOverlapping ==
    \A i, j \in Matching :
        i # j => (ranges[i].end < ranges[j].start \/ ranges[j].end < ranges[i].start)

\* How often position i occurs in a sequence of positions.
Occurrences(idxs, i) == Cardinality({k \in 1..Len(idxs) : idxs[k] = i})

StrictlyIncreasing(idxs) == \A k \in 1..(Len(idxs) - 1) : idxs[k] < idxs[k + 1]

\* The 0-based line positions range i covers in a file of NumLines lines.
Covered(i) == {x \in 0..(NumLines - 1) : ranges[i].start - 1 <= x /\ x < ranges[i].end}

\* The number of ranges for the given path that cover line position x.
Coverage(x) == Cardinality({i \in Matching : x \in Covered(i)})

BothCalled == selected # NotCalled /\ remaining # NotCalled

\* C1: under non-overlapping ranges select and complement partition the line
\* positions: each original position is emitted exactly once, by exactly one
\* of the two, and each output is in file order.
C1_SelectComplementPartition ==
    (BothCalled /\ NonOverlapping) =>
        /\ ~selected.panic
        /\ \A x \in 0..(NumLines - 1) :
              Occurrences(sel_lines, x) + Occurrences(rem_lines, x) = 1
        /\ \A k \in 1..Len(sel_lines) : sel_lines[k] \in 0..(NumLines - 1)
        /\ \A k \in 1..Len(rem_lines) : rem_lines[k] \in 0..(NumLines - 1)
        /\ StrictlyIncreasing(sel_lines)
        /\ StrictlyIncreasing(rem_lines)

\* C1 witness: two non-overlapping ranges for the path, given out of order,
\* split a three-line file into a selected and a remaining part.
C1_Witness ==
    /\ BothCalled /\ NonOverlapping
    /\ Matching = {1, 2}
    /\ ranges[1].start > ranges[2].start
    /\ NumLines = 3
    /\ sel_lines = <<0, 1>>
    /\ rem_lines = <<2>>

\* C2 as claimed: under non-overlapping ranges the lines of select's bytes
\* and the lines of complement's bytes add up to the lines of the content.
C2_LineCountsAddUp ==
    (BothCalled /\ NonOverlapping) =>
        line_count(selected.bytes) + line_count(remaining.bytes) = line_count(content)

\* The number of lines range i contributes: those from start to
\* min(end, number of lines), none when start is past the last line.
SpanLen(i) == IF min(ranges[i].end, NumLines) >= ranges[i].start
              THEN min(ranges[i].end, NumLines) - ranges[i].start + 1
              ELSE 0

RECURSIVE SumSpanLen(_)
SumSpanLen(S) ==
    IF S = {} THEN 0
    ELSE LET i == CHOOSE x \in S : TRUE IN SpanLen(i) + SumSpanLen(S \ {i})

\* C5: select never fails, and a range for the path contributes exactly the
\* lines start..min(end, number of lines): nothing when start is past the
\* last line.  With one range for the path that is the whole output.
C5_SelectClampsToFile ==
    selected # NotCalled =>
        /\ ~selected.panic
        /\ Len(sel_lines) = SumSpanLen(Matching)
        /\ \A i \in Matching :
              Matching = {i} =>
                 /\ sel_lines = [k \in 1..SpanLen(i) |-> ranges[i].start + k - 2]
                 /\ selected.bytes =
                      into_bytes(join(SubSeq(lines(from_utf8_lossy(content)),
                                             ranges[i].start,
                                             min(ranges[i].end, NumLines)), <<LF>>))

\* C5 witness: one range for the path whose end is past the last line was
\* cut at the last line.
C5_Witness ==
    /\ selected # NotCalled
    /\ \E i \in Matching :
          /\ Matching = {i}
          /\ ranges[i].start = 1 /\ ranges[i].end > NumLines /\ NumLines = 1
          /\ sel_lines = <<0>>

\* The place of range i among the ranges for the path, by start and then by
\* input position.
Rank(i) ==
    1 + Cardinality({j \in Matching :
                        \/ ranges[j].start < ranges[i].start
                        \/ ranges[j].start = ranges[i].start /\ j < i})

InOrder == [k \in 1..Cardinality(Matching) |-> CHOOSE i \in Matching : Rank(i) = k]

RECURSIVE ConcatSpans(_, _)
ConcatSpans(order, k) ==
    IF k > Len(order) THEN <<>>
    ELSE [n \in 1..SpanLen(order[k]) |-> ranges[order[k]].start + n - 2]
         \o ConcatSpans(order, k + 1)

\* C6: select uses only the ranges for the path, in ascending order of start
\* with ties in input order; the output is in file order under
\* non-overlapping ranges; and it is empty when no range is for the path.
C6_SelectOrdersByStart ==
    selected # NotCalled =>
        /\ ~selected.panic
        /\ sel_lines = ConcatSpans(InOrder, 1)
        /\ NonOverlapping => StrictlyIncreasing(sel_lines)
        /\ Matching = {} => selected.bytes = <<>>

\* C6 witness: two ranges for the path given in descending order of start
\* came out in file order.
C6_Witness ==
    /\ selected # NotCalled
    /\ Len(ranges) = 2
    /\ Matching = {1, 2}
    /\ ranges[1].start > ranges[2].start
    /\ NonOverlapping
    /\ sel_lines = <<0, 1>>

\* C7: with no range for the path, complement returns the content byte for
\* byte.
C7_ComplementPassThrough ==
    (remaining # NotCalled /\ Matching = {}) => remaining.bytes = content

\* C7 witness: a content ending in "\r\n" with an invalid byte went through
\* unchanged while a range for another path was present.
C7_Witness ==
    /\ remaining # NotCalled
    /\ Matching = {}
    /\ ranges # <<>>
    /\ content = <<BadByte, CR, LF>>
    /\ remaining.bytes = content

\* C8: a line position covered by k >= 1 ranges for the path is emitted k
\* times by select and never by complement; an uncovered one is emitted once
\* by complement and never by select; complement is empty when the ranges
\* cover every line.
C8_OverlapCounts ==
    BothCalled =>
        /\ \A x \in 0..(NumLines - 1) :
              /\ Occurrences(sel_lines, x) = Coverage(x)
              /\ Occurrences(rem_lines, x) = (IF Coverage(x) = 0 THEN 1 ELSE 0)
        /\ Len(sel_lines) = SumSpanLen(Matching)
        /\ (Matching # {} /\ \A x \in 0..(NumLines - 1) : Coverage(x) >= 1)
              => remaining.bytes = <<>>

\* C8 witness: two overlapping ranges for the path; the line both cover was
\* emitted twice by select and the uncovered line once by complement.
C8_Witness ==
    /\ BothCalled
    /\ ~NonOverlapping
    /\ \E x \in 0..(NumLines - 1) : Coverage(x) = 2 /\ Occurrences(sel_lines, x) = 2
    /\ \E x \in 0..(NumLines - 1) : Coverage(x) = 0 /\ Occurrences(rem_lines, x) = 1

(***************************************************************************)
(* Properties of hunksplit_command (SpecCmd).                              *)
(***************************************************************************)
\* The positions of the arguments LineRange::parse rejects.
InvalidArgs == {i \in 1..Len(args) : ~ExpectedParse(args[i]).ok}

SetMin(S) == CHOOSE x \in S : \A y \in S : x <= y

\* The accesses to the workspace, the repository and the working-copy files.
RepoAccesses ==
    {k \in 1..Len(effects) : effects[k][1] \in {"Workspace::load", "load_at_head", "fs::read"}}

\* C9: every range argument is parsed before the workspace or repository is
\* loaded and before any file is read; with an invalid argument the command
\* fails with the parse error of the first invalid one and nothing was
\* loaded or read.
C9_ParseBeforeLoad ==
    /\ RepoAccesses # {} =>
          /\ InvalidArgs = {}
          /\ arg_i = Len(args)
          /\ Len(parsed_ranges) = Len(args)
    /\ InvalidArgs # {} =>
          /\ effects = <<>>
          /\ outcome \in {Running, ExpectedParse(args[SetMin(InvalidArgs)])}
          /\ pc \in {"parse", "done"}
          /\ pc = "done" => outcome = ExpectedParse(args[SetMin(InvalidArgs)])
          /\ arg_i < SetMin(InvalidArgs)

\* C9 witness: a run with a valid, an invalid and again a valid argument
\* ended with the parse error and without any access.
C9_Witness ==
    /\ pc = "done"
    /\ Len(args) = 3
    /\ InvalidArgs = {2}
    /\ outcome = Err(ErrZero)
    /\ effects = <<>>

\* The repository has been loaded.
Loaded ==
    /\ \E k \in 1..Len(effects) : effects[k] = <<"load_at_head">>
    /\ outcome # Err(ErrLoadRepo)

OutputPaths == {output[k].path : k \in 1..Len(output)}

\* The report printed for a path, from the working copy and the ranges.
ExpectedReport(path) ==
    IF fs[path].found
    THEN [panic |-> FALSE, path |-> path, found |-> TRUE,
          selected |-> extract_lines_from_content(fs[path].bytes, parsed_ranges, path).bytes,
          selected_lines |->
              line_count(extract_lines_from_content(fs[path].bytes, parsed_ranges, path).bytes),
          remaining |-> extract_complement_lines(fs[path].bytes, parsed_ranges, path).bytes,
          remaining_lines |->
              line_count(extract_complement_lines(fs[path].bytes, parsed_ranges, path).bytes)]
    ELSE [panic |-> FALSE, path |-> path, found |-> FALSE]

\* C10: once the repository is loaded, every distinct path of the ranges is
\* visited exactly once; an unreadable file is reported as not found and
\* does not end the run; every readable one is reported with its select and
\* complement; the command returns Ok and makes no access other than
\* reading the files.
C10_PreviewVisitsEveryPath ==
    Loaded =>
        /\ outcome \in {Running, OkResult}
        /\ pc \in {"files", "done"}
        /\ Cardinality(OutputPaths) = Len(output)
        /\ OutputPaths \cap affected_files = {}
        /\ OutputPaths \cup affected_files = {parsed_ranges[i].path : i \in 1..Len(parsed_ranges)}
        /\ \A k \in 1..Len(output) : output[k] = ExpectedReport(output[k].path)
        /\ Cardinality({k \in 1..Len(effects) : effects[k][1] = "fs::read"}) = Len(output)
        /\ \A k \in 1..Len(effects) :
              effects[k][1] \in {"current_dir", "Workspace::load", "load_at_head", "fs::read"}
        /\ pc = "done" => (outcome = OkResult /\ affected_files = {})

\* C10 witness: a run over two paths, the first one visited missing from the
\* working copy, ended with Ok after reporting the second.
C10_Witness ==
    /\ pc = "done"
    /\ outcome = OkResult
    /\ Len(output) = 2
    /\ ~output[1].found
    /\ output[2].found
    /\ output[2].selected # <<>>

====
